---- MODULE Spec2Model ----
(***************************************************************************)
(* A model of neobase.NeoBase: the loader (date filter, duplicate keys),   *)
(* the key -> record store and the geographical queries built on it.       *)
(*                                                                         *)
(* Python strings are sequences of one-character strings, so that          *)
(* str.upper, str.startswith, str.split, the f-string that builds a        *)
(* duplicate's key and the lexicographic comparison of dates are computed  *)
(* as Python computes them.  Python values stored in a record or returned  *)
(* by a call are tagged ([t |-> "str", v |-> ...]) so that values of       *)
(* different Python types compare unequal, as they do in Python.           *)
(***************************************************************************)
EXTENDS Integers, Sequences, FiniteSets, TLC

-----------------------------------------------------------------------------
(* Bounds of the model *)

\* rows of the input after its first line (input of the loader runs)
MaxRows == 3
\* rows of the input after its first line (input of the query runs)
MaxGeoRows == 2
\* calls of set after construction
MaxSets == 1
\* keys in one call of distance, candidates in one search
MaxKeys == 2
\* the N of find_closest_from_location ranges over 0..MaxN
MaxN == 2

-----------------------------------------------------------------------------
(* Python strings *)

\* the characters of the model, in code point order
CodePoints ==
    <<"#", ",", "0", "1", "2", "3", "4", "5", "6", "7", "8", "9", "=", "@",
      "A", "B", "H", "X", "Z", "a", "b", "x", "z">>

Ord(c) == CHOOSE i \in 1..Len(CodePoints) : CodePoints[i] = c

\* a < b on Python strings: the first differing character decides, a proper
\* prefix is smaller
RECURSIVE StrLess(_, _)
StrLess(a, b) ==
    IF b = <<>> THEN FALSE
    ELSE IF a = <<>> THEN TRUE
    ELSE IF a[1] /= b[1] THEN Ord(a[1]) < Ord(b[1])
    ELSE StrLess(Tail(a), Tail(b))

UpperChar(c) ==
    CASE c = "a" -> "A"
      [] c = "b" -> "B"
      [] c = "x" -> "X"
      [] c = "z" -> "Z"
      [] OTHER -> c

\* str.upper
upper(s) == [i \in 1..Len(s) |-> UpperChar(s[i])]

\* str.startswith
startswith(s, p) == Len(s) >= Len(p) /\ SubSeq(s, 1, Len(p)) = p

DecimalDigits == <<"0", "1", "2", "3", "4", "5", "6", "7", "8", "9">>

\* the decimal text of a natural number, as an f-string formats it
RECURSIVE IntToStr(_)
IntToStr(n) ==
    IF n < 10 THEN <<DecimalDigits[n + 1]>>
    ELSE IntToStr(n \div 10) \o <<DecimalDigits[(n % 10) + 1]>>

IsDigit(c) == \E i \in 1..10 : DecimalDigits[i] = c

DigitValue(c) == (CHOOSE i \in 1..10 : DecimalDigits[i] = c) - 1

RECURSIVE DecimalValue(_)
DecimalValue(s) ==
    IF s = <<>> THEN 0
    ELSE 10 * DecimalValue(SubSeq(s, 1, Len(s) - 1)) + DigitValue(s[Len(s)])

\* str.split(sep): the pieces between the separators, [""] for ""
RECURSIVE SplitFrom(_, _, _, _)
SplitFrom(s, sep, i, cur) ==
    IF i > Len(s) THEN <<cur>>
    ELSE IF s[i] = sep THEN <<cur>> \o SplitFrom(s, sep, i + 1, <<>>)
    ELSE SplitFrom(s, sep, i + 1, Append(cur, s[i]))

split(s, sep) == SplitFrom(s, sep, 1, <<>>)

-----------------------------------------------------------------------------
(* Python values *)

PyNone == [t |-> "none"]
Str(s) == [t |-> "str", v |-> s]
Float(n) == [t |-> "float", v |-> n]
List(l) == [t |-> "list", v |-> l]
SetOf(S) == [t |-> "set", v |-> S]
LatLng(lat, lng) == [t |-> "LatLng", v |-> <<lat, lng>>]

StrList(l) == List([i \in 1..Len(l) |-> Str(l[i])])

\* the key None; every other key is a string
NoneKey == <<"None">>

\* float(x) of a stored value: a number, ValueError on a string that is no
\* number, TypeError on None.  Numbers of the model are whole degrees.
CanFloat(x) ==
    \/ x.t = "float"
    \/ x.t = "str" /\ x.v /= <<>> /\ \A i \in 1..Len(x.v) : IsDigit(x.v[i])

ToFloat(x) == IF x.t = "float" THEN x.v ELSE DecimalValue(x.v)

\* an int beyond the range of a float, such as 10**400
HugeInt == [t |-> "int", v |-> "10**400"]

\* the exception float(x) raises on a value it does not convert: ValueError
\* on a string that is no number, OverflowError on an int out of range,
\* TypeError on None, a list, a set, a dict
FloatError(x) ==
    CASE x.t = "str" -> "ValueError"
      [] x.t = "int" -> "OverflowError"
      [] OTHER -> "TypeError"

-----------------------------------------------------------------------------
(* The schema *)

KEY == 0

\* the decoders of FIELDS: None (the raw string), float-or-None, split, list
Decode(splitter, s) ==
    CASE splitter = "None" -> Str(s)
      [] splitter = "float_or_none" ->
            IF s = <<>> THEN PyNone ELSE Float(DecimalValue(s))
      [] splitter = "split_comma" -> StrList(split(s, ","))
      [] splitter = "split_equal" -> StrList(split(s, "="))
      [] splitter = "list" -> StrList([i \in 1..Len(s) |-> <<s[i]>>])

\* float(s) of the page_rank decoder raises ValueError on a non-number
DecodeRaises(splitter, s) ==
    /\ splitter = "float_or_none"
    /\ s /= <<>>
    /\ ~CanFloat(Str(s))

FIELDS ==
    << <<"iata_code", 0, "None">>,
       <<"name", 6, "None">>,
       <<"lat", 8, "None">>,
       <<"lng", 9, "None">>,
       <<"page_rank", 12, "float_or_none">>,
       <<"country_code", 16, "None">>,
       <<"country_name", 18, "None">>,
       <<"continent_name", 19, "None">>,
       <<"timezone", 31, "None">>,
       <<"city_code_list", 36, "split_comma">>,
       <<"city_name_list", 37, "split_equal">>,
       <<"location_type", 41, "list">>,
       <<"currency", 46, "None">> >>

FieldNames == {FIELDS[i][1] : i \in 1..Len(FIELDS)}

FieldIndex(name) == CHOOSE i \in 1..Len(FIELDS) : FIELDS[i][1] = name

\* the columns of validity: row[13], row[14]
DateFromCol == 13
DateUntilCol == 14

-----------------------------------------------------------------------------
(* Rows: a row is a function from 0..len-1 to strings, as csv.reader yields *)

MkRow(len, key, name, lat, lng, from, until) ==
    [c \in 0..(len - 1) |->
        CASE c = 0 -> key
          [] c = 6 -> name
          [] c = 8 -> lat
          [] c = 9 -> lng
          [] c = 13 -> from
          [] c = 14 -> until
          [] c = 36 -> <<"A", ",", "B">>
          [] c = 41 -> <<"A">>
          [] OTHER -> <<>>]

HasCol(row, c) == c \in DOMAIN row

\* the columns a complete row has: 0 .. the last column FIELDS reads
RowWidth == 1 + FIELDS[Len(FIELDS)][2]
ShortWidth == 1 + DateUntilCol

\* The rows the inputs are drawn from; a row's name is its number here.
RowTable ==
    << MkRow(RowWidth, <<"A">>, <<"1">>, <<"0">>, <<"0">>, <<>>, <<>>),
       MkRow(RowWidth, <<"a">>, <<"2">>, <<"0">>, <<"1">>, <<"2", "0">>, <<>>),
       MkRow(RowWidth, <<"A", "@", "1">>, <<"3">>, <<"1">>, <<"0">>, <<>>, <<>>),
       MkRow(RowWidth, <<"A">>, <<"4">>, <<"0">>, <<"1">>, <<"1", "2">>, <<"2", "0">>),
       MkRow(1, <<"#">>, <<>>, <<>>, <<>>, <<>>, <<>>),
       MkRow(0, <<>>, <<>>, <<>>, <<>>, <<>>, <<>>),
       MkRow(1, <<"A">>, <<>>, <<>>, <<>>, <<>>, <<>>),
       MkRow(ShortWidth, <<"A">>, <<"8">>, <<"0">>, <<"0">>, <<>>, <<>>),
       MkRow(ShortWidth, <<"A">>, <<"9">>, <<"0">>, <<"0">>, <<>>, <<"1", "2">>),
       MkRow(ShortWidth, <<>>, <<"1", "0">>, <<"0">>, <<"0">>, <<>>, <<>>),
       MkRow(RowWidth, <<"B">>, <<"1", "1">>, <<"1">>, <<"0">>, <<>>, <<>>),
       MkRow(RowWidth, <<"B">>, <<"1", "2">>, <<"x">>, <<"0">>, <<>>, <<>>) >>

\* rows of the loader runs: keys in both cases and with an @ suffix, validity
\* windows, a comment, a blank row, rows too short for the schema
LoaderRows == 1..10
\* rows of the query runs: complete rows with and without a geocode
GeoRows == {1, 11, 12}
\* the first line of an input: a complete, valid data row
HeaderRows == {1}

\* reference dates (compared as strings: "9" is after "20")
Dates == {<<"1", "2">>, <<"2", "0">>, <<"9">>}

-----------------------------------------------------------------------------
(* The loader *)

\* skip with the bounds of the window excluded
skip_bounds_excluded(row, date) ==
    LET date_from == row[DateFromCol]
        date_until == row[DateUntilCol]
    IN  \/ date_from /= <<>> /\ ~StrLess(date_from, date)
        \/ date_until /= <<>> /\ ~StrLess(date, date_until)

\* NeoBase.skip: the row is not valid on the date
skip(row, date) ==
    LET date_from == row[DateFromCol]
        date_until == row[DateUntilCol]
    IN  \/ date_from /= <<>> /\ StrLess(date, date_from)
        \/ date_until /= <<>> /\ StrLess(date_until, date)

\* NeoBase._empty_value
empty_value == [f \in {"__dup__"} |-> SetOf({})]

EmptyDict == [k \in {} |-> empty_value]

\* d[name] = value, on a Python dict
DictSet(d, name, value) ==
    [k \in DOMAIN d \cup {name} |-> IF k = name THEN value ELSE d[k]]

\* the record a row yields: empty_value() and one entry per field of FIELDS
BuildRecord(row) ==
    [f \in {"__dup__"} \cup FieldNames |->
        IF f = "__dup__" THEN SetOf({})
        ELSE LET e == FIELDS[FieldIndex(f)] IN Decode(e[3], row[e[2]])]

\* reading the fields of the row raises: IndexError on a missing column,
\* ValueError from a decoder
BuildRaises(row) ==
    \E i \in 1..Len(FIELDS) :
        \/ ~HasCol(row, FIELDS[i][2])
        \/ DecodeRaises(FIELDS[i][3], row[FIELDS[i][2]])

\* NewKey numbered from the duplicates alone, without the 1
NewKeyFromZero(key, prev_d) ==
    key \o <<"@">> \o IntToStr(Cardinality(prev_d["__dup__"].v))

\* the key of a duplicate: f"{key}@{1 + len(prev_d['__dup__'])}"
NewKey(key, prev_d) ==
    key \o <<"@">> \o IntToStr(1 + Cardinality(prev_d["__dup__"].v))

Failed == [pc |-> "failed", data |-> EmptyDict, src |-> <<>>, order |-> <<>>]

\* Excluded without the test of an empty key
ExcludedButEmptyKey(st, row, date, duplicates) ==
    \/ skip(row, date)
    \/ row[KEY] \in DOMAIN st.data /\ ~duplicates

\* Excluded without the test of the duplicates flag
ExcludedButDuplicate(st, row, date, duplicates) ==
    \/ skip(row, date)
    \/ row[KEY] = <<>>

\* The row is passed over: not valid on the date, no key, or a key the store
\* has while duplicates are not kept.
Excluded(st, row, date, duplicates) ==
    \/ skip(row, date)
    \/ row[KEY] = <<>>
    \/ row[KEY] \in DOMAIN st.data /\ ~duplicates

\* StoreRow with the last row of a key taking the key over
StoreRowLastWins(st, key, d, idx) ==
    [pc |-> st.pc,
     data |-> DictSet(st.data, key, d),
     src |-> DictSet(st.src, key, idx),
     order |-> IF key \in DOMAIN st.data THEN st.order ELSE Append(st.order, key)]

\* The record d of row number idx enters the store: under its key if the key
\* is new, else under key@n, the two records exchanging their keys.
\* st = [pc, data, src, order]: src[k] is the number of the row data[k] was
\* built from, order the keys of data in insertion order (a dict iterates so).
StoreRow(st, key, d, idx) ==
    IF key \notin DOMAIN st.data
    THEN [pc |-> st.pc,
          data |-> DictSet(st.data, key, d),
          src |-> DictSet(st.src, key, idx),
          order |-> Append(st.order, key)]
    ELSE LET prev_d == st.data[key]
             new_key == NewKey(key, prev_d)
             new_d == [d EXCEPT !["__dup__"] = SetOf(prev_d["__dup__"].v \cup {key})]
             new_prev == [prev_d EXCEPT !["__dup__"] = SetOf(@.v \cup {new_key})]
         IN  [pc |-> st.pc,
              data |-> DictSet(DictSet(st.data, new_key, new_d), key, new_prev),
              src |-> DictSet(st.src, new_key, idx),
              order |-> IF new_key \in DOMAIN st.data THEN st.order
                        ELSE Append(st.order, new_key)]

\* One iteration of the loop of NeoBase.load on row number idx of the input.
\* Reading a column the row lacks raises IndexError: the load fails.
LoadStep(st, row, idx, date, duplicates) ==
    IF DOMAIN row = {} \/ startswith(row[0], <<"#">>) THEN st
    ELSE IF ~HasCol(row, DateFromCol) \/ ~HasCol(row, DateUntilCol) THEN Failed
    ELSE IF Excluded(st, row, date, duplicates) THEN st
    ELSE IF BuildRaises(row) THEN Failed
    ELSE StoreRow(st, row[KEY], BuildRecord(row), idx)

\* NeoBase.load on a whole input (its first line included)
RECURSIVE LoadFrom(_, _, _, _, _)
LoadFrom(st, rows, idx, date, duplicates) ==
    IF idx > Len(rows) \/ st.pc = "failed" THEN st
    ELSE LoadFrom(LoadStep(st, RowTable[rows[idx]], idx, date, duplicates),
                  rows, idx + 1, date, duplicates)

load(rows, date, duplicates) ==
    LoadFrom([pc |-> "loop", data |-> EmptyDict, src |-> <<>>, order |-> <<>>],
             rows, 2, date, duplicates)

-----------------------------------------------------------------------------
(* The store *)

Return(v) == [kind |-> "return", val |-> v]
Raise(e) == [kind |-> "raise", exc |-> e]

\* the _sentinel of the signatures: no default was given
Sentinel == [t |-> "sentinel"]
\* field=None of get
NoField == "<None>"

\* the key as the store looks it up: upper-cased unless None
NormKey(key) == IF key /= NoneKey THEN upper(key) ELSE key

\* NeoBase.__contains__
contains(d, key) == NormKey(key) \in DOMAIN d

\* dict.update
DictUpdate(rec, kw) ==
    [k \in DOMAIN rec \cup DOMAIN kw |-> IF k \in DOMAIN kw THEN kw[k] ELSE rec[k]]

\* set with the record replaced by the given fields, not merged with them
set_replaces(d, key, kw) ==
    LET k == NormKey(key)
    IN  DictSet(d, k, DictUpdate(empty_value, kw))

\* NeoBase.set: the store after set(key, **kw)
set(d, key, kw) ==
    LET k == NormKey(key)
        d1 == IF ~contains(d, k) THEN DictSet(d, k, empty_value) ELSE d
    IN  [d1 EXCEPT ![k] = DictUpdate(@, kw)]

\* the insertion order after set(key, **kw)
SetOrder(d, ord, key) ==
    IF ~contains(d, NormKey(key)) THEN Append(ord, NormKey(key)) ELSE ord

\* the dict object self._data[k]: what it is (the record of k in the store,
\* not a copy) and what it holds
DictRef(d, k) == [t |-> "dict", ref |-> k, v |-> d[k]]

\* NeoBase.get
get(d, key, field, default) ==
    LET k == NormKey(key) IN
    IF k \notin DOMAIN d
    THEN IF default = Sentinel THEN Raise("UnknownKeyError") ELSE Return(default)
    ELSE IF field = NoField THEN Return(DictRef(d, k))
    ELSE IF field \notin DOMAIN d[k] THEN Raise("KeyError")
    ELSE Return(d[k][field])

\* the exceptions get_location turns into None
LocationErrors == {"ValueError", "TypeError", "KeyError"}

\* float(self.get(key, field)), the key being in the store: the number, or
\* the exception raised (KeyError of get on a field the record lacks)
FloatOfField(d, key, field) ==
    LET r == get(d, key, field, Sentinel) IN
    IF r.kind = "raise" THEN r
    ELSE IF CanFloat(r.val) THEN Return(ToFloat(r.val))
    ELSE Raise(FloatError(r.val))

\* NeoBase.get_location: the latitude is read and converted first; an
\* exception outside LocationErrors propagates
get_location(d, key, lat_field, lng_field, default) ==
    IF ~contains(d, key)
    THEN IF default = Sentinel THEN Raise("UnknownKeyError") ELSE Return(default)
    ELSE LET lat == FloatOfField(d, key, lat_field)
             lng == FloatOfField(d, key, lng_field)
         IN  IF lat.kind = "raise"
             THEN IF lat.exc \in LocationErrors THEN Return(PyNone) ELSE lat
             ELSE IF lng.kind = "raise"
             THEN IF lng.exc \in LocationErrors THEN Return(PyNone) ELSE lng
             ELSE Return(LatLng(lat.val, lng.val))

Abs(n) == IF n < 0 THEN -n ELSE n

\* The haversine formula of distance_between_locations with radius 6371.0 km,
\* on the whole degrees of the model (latitudes 0 and 1, longitudes at most
\* two degrees apart), in whole metres.
Haversine(lat0, lng0, lat1, lng1) ==
    LET dl == Abs(lng0 - lng1) IN
    CASE lat0 = lat1 /\ lat0 = 0 /\ dl = 0 -> 0
      [] lat0 = lat1 /\ lat0 = 0 /\ dl = 1 -> 111195
      [] lat0 = lat1 /\ lat0 = 0 /\ dl = 2 -> 222390
      [] lat0 /= lat1 /\ dl = 0 -> 111195
      [] lat0 /= lat1 /\ dl = 1 -> 157249
      [] lat0 /= lat1 /\ dl = 2 -> 248629
      [] lat0 = lat1 /\ lat0 = 1 /\ dl = 0 -> 0
      [] lat0 = lat1 /\ lat0 = 1 /\ dl = 1 -> 111178
      [] lat0 = lat1 /\ lat0 = 1 /\ dl = 2 -> 222356

\* NeoBase.distance_between_locations
distance_between_locations(l0, l1) ==
    IF l0 = PyNone \/ l1 = PyNone THEN PyNone
    ELSE Float(Haversine(l0.v[1], l0.v[2], l1.v[1], l1.v[2]))

\* KeyError and its subclass UnknownKeyError: what except KeyError catches
KeyErrors == {"KeyError", "UnknownKeyError"}

\* the first exception of [self.get_location(k) for k in keys], if any
RECURSIVE FirstRaise(_, _, _)
FirstRaise(d, keys, i) ==
    IF i > Len(keys) THEN Return(PyNone)
    ELSE LET r == get_location(d, keys[i], "lat", "lng", Sentinel) IN
         IF r.kind = "raise" THEN r ELSE FirstRaise(d, keys, i + 1)

\* fsum over a list of numbers
RECURSIVE fsum(_)
fsum(l) == IF l = <<>> THEN 0 ELSE l[1].v + fsum(Tail(l))

\* distance with the default forgotten: the exception always propagates
distance_default_ignored(d, keys, default) ==
    LET raised == FirstRaise(d, keys, 1) IN
    IF raised.kind = "raise" THEN raised
    ELSE LET locations == [i \in 1..Len(keys) |->
                              get_location(d, keys[i], "lat", "lng", Sentinel).val]
             legs == [i \in 1..(Len(keys) - 1) |->
                         distance_between_locations(locations[i], locations[i + 1])]
         IN  IF \E i \in 1..Len(legs) : legs[i] = PyNone
             THEN Raise("TypeError")
             ELSE Return(Float(fsum(legs)))

\* NeoBase.distance
distance(d, keys, default) ==
    LET raised == FirstRaise(d, keys, 1) IN
    IF raised.kind = "raise"
    THEN IF default = Sentinel \/ raised.exc \notin KeyErrors
         THEN raised
         ELSE Return(default)
    ELSE LET locations == [i \in 1..Len(keys) |->
                              get_location(d, keys[i], "lat", "lng", Sentinel).val]
             legs == [i \in 1..(Len(keys) - 1) |->
                         distance_between_locations(locations[i], locations[i + 1])]
         IN  IF \E i \in 1..Len(legs) : legs[i] = PyNone
             THEN Raise("TypeError")
             ELSE Return(Float(fsum(legs)))

\* What a generator yields is a sequence of (dist, key) pairs; when the
\* generator raises, the sequence ends with the exception, a triple.
Raised(exc) == <<0, <<>>, exc>>

IsRaise(p) == Len(p) = 3

Raises(l) == l /= <<>> /\ IsRaise(l[Len(l)])

\* NeoBase._build_distances: the (dist, key) pairs, in the order of keys,
\* up to the first key whose get_location raises
RECURSIVE build_distances(_, _, _)
build_distances(d, lat_lng_ref, keys) ==
    IF lat_lng_ref = PyNone \/ keys = <<>> THEN <<>>
    ELSE LET key == keys[1]
             rest == build_distances(d, lat_lng_ref, Tail(keys))
         IN  IF ~contains(d, key) THEN rest
             ELSE LET r == get_location(d, key, "lat", "lng", Sentinel) IN
                  IF r.kind = "raise" THEN <<Raised(r.exc)>>
                  ELSE IF r.val = PyNone THEN rest
                  ELSE <<<<distance_between_locations(lat_lng_ref, r.val).v, key>>>>
                       \o rest

\* from_keys=None
AllKeys == << <<"<all>">> >>

FromKeys(ord, from_keys) == IF from_keys = AllKeys THEN ord ELSE from_keys

\* find_near_location with the radius excluded
find_near_location_strict(d, ord, lat_lng, radius, from_keys) ==
    LET pairs == build_distances(d, lat_lng, FromKeys(ord, from_keys))
    IN  SelectSeq(pairs, LAMBDA p : IsRaise(p) \/ p[1] < radius)

\* NeoBase.find_near_location: the pairs it yields, in order
find_near_location(d, ord, lat_lng, radius, from_keys) ==
    LET pairs == build_distances(d, lat_lng, FromKeys(ord, from_keys))
    IN  SelectSeq(pairs, LAMBDA p : IsRaise(p) \/ p[1] <= radius)

\* tuples ordered by their distance alone
PairLessByDistance(p, q) == p[1] < q[1]

\* (dist, key) tuples as Python orders them
PairLess(p, q) == p[1] < q[1] \/ (p[1] = q[1] /\ StrLess(p[2], q[2]))

\* sorted(l) on (dist, key) tuples: a stable insertion sort
RECURSIVE Insert(_, _)
Insert(p, l) ==
    IF l = <<>> THEN <<p>>
    ELSE IF PairLess(p, l[1]) THEN <<p>> \o l
    ELSE <<l[1]>> \o Insert(p, Tail(l))

RECURSIVE Sorted(_)
Sorted(l) ==
    IF l = <<>> THEN <<>>
    ELSE Insert(l[Len(l)], Sorted(SubSeq(l, 1, Len(l) - 1)))

\* heapq.nsmallest(n, l): sorted(l)[:n]; l is read to its end first, so an
\* exception of l is all that comes out
nsmallest(n, l) ==
    IF Raises(l) THEN <<l[Len(l)]>>
    ELSE LET s == Sorted(l) IN
         IF n <= 0 THEN <<>> ELSE SubSeq(s, 1, IF n < Len(s) THEN n ELSE Len(s))

\* NeoBase.find_closest_from_location: the pairs it yields, in order
find_closest_from_location(d, ord, lat_lng, N, from_keys) ==
    nsmallest(N, build_distances(d, lat_lng, FromKeys(ord, from_keys)))

\* find_near without the test of the key: get_location raises on a key the
\* store does not hold
find_near_unchecked(d, ord, key, radius, from_keys) ==
    LET loc == get_location(d, key, "lat", "lng", Sentinel) IN
    IF loc.kind = "raise" THEN <<Raised(loc.exc)>>
    ELSE find_near_location(d, ord, loc.val, radius, from_keys)

\* NeoBase.find_near: the pairs it yields, in order
find_near(d, ord, key, radius, from_keys) ==
    IF ~contains(d, key) THEN <<>>
    ELSE LET loc == get_location(d, key, "lat", "lng", Sentinel) IN
         IF loc.kind = "raise" THEN <<Raised(loc.exc)>>
         ELSE find_near_location(d, ord, loc.val, radius, from_keys)

\* NeoBase.find_closest_from: the pairs it yields, in order
find_closest_from(d, ord, key, N, from_keys) ==
    IF ~contains(d, key) THEN <<>>
    ELSE LET loc == get_location(d, key, "lat", "lng", Sentinel) IN
         IF loc.kind = "raise" THEN <<Raised(loc.exc)>>
         ELSE find_closest_from_location(d, ord, loc.val, N, from_keys)

\* all(match(self.get(key, f), v) for f, v in conditions), from condition
\* number i on: "true", "false", or the exception get raises on a field the
\* record lacks (a condition after one that fails is not evaluated)
RECURSIVE AllMatch(_, _, _, _, _)
AllMatch(d, key, conditions, reverse, i) ==
    IF i > Len(conditions) THEN "true"
    ELSE LET r == get(d, key, conditions[i][1], Sentinel) IN
         IF r.kind = "raise" THEN r.exc
         ELSE IF (r.val = conditions[i][2]) = reverse THEN "false"
         ELSE AllMatch(d, key, conditions, reverse, i + 1)

\* the loop of find_with over keys: the keys it yields and the exception
\* that ends it, if any ("none" when it runs to its end)
RECURSIVE FindWithFrom(_, _, _, _)
FindWithFrom(d, conditions, keys, reverse) ==
    IF keys = <<>> THEN [keys |-> <<>>, exc |-> "none"]
    ELSE LET key == keys[1]
             m == IF contains(d, key) THEN AllMatch(d, key, conditions, reverse, 1)
                  ELSE "false"
         IN  IF m \notin {"true", "false"} THEN [keys |-> <<>>, exc |-> m]
             ELSE LET rest == FindWithFrom(d, conditions, Tail(keys), reverse) IN
                  IF m = "true"
                  THEN [keys |-> <<key>> \o rest.keys, exc |-> rest.exc]
                  ELSE rest

\* find_with with every test of a key passing
find_with_unfiltered(d, ord, conditions, from_keys, reverse) ==
    [keys |-> SelectSeq(FromKeys(ord, from_keys), LAMBDA k : contains(d, k)),
     exc |-> "none"]

\* NeoBase.find_with
find_with(d, ord, conditions, from_keys, reverse) ==
    FindWithFrom(d, conditions, FromKeys(ord, from_keys), reverse)

-----------------------------------------------------------------------------
(* The state *)

VARIABLES
    pc,          \* "start", "loop" (in the loop of load), "ready", "failed"
    date,        \* the reference date of the constructor
    duplicates,  \* the duplicates flag of the constructor
    f,           \* the lines of the input read so far (numbers of RowTable)
    data,        \* self._data: key -> record
    src,         \* key -> number of the input line its record was built from
    order,       \* the keys of self._data in insertion order
    nsets,       \* calls of set so far
    result       \* the last call and its outcome

vars == <<pc, date, duplicates, f, data, src, order, nsets, result>>

NoResult == [op |-> "none"]

Init ==
    /\ pc = "start"
    /\ date \in Dates
    /\ duplicates \in BOOLEAN
    /\ f = <<>>
    /\ data = EmptyDict
    /\ src = <<>>
    /\ order = <<>>
    /\ nsets = 0
    /\ result = NoResult

\* next(f): the first line is read and dropped
SkipHeader ==
    /\ pc = "start"
    /\ \E h \in HeaderRows : f' = <<h>>
    /\ pc' = "loop"
    /\ UNCHANGED <<date, duplicates, data, src, order, nsets, result>>

\* next(f) raises StopIteration: the input is empty, the store is empty
EmptyInput ==
    /\ pc = "start"
    /\ pc' = "ready"
    /\ UNCHANGED <<date, duplicates, f, data, src, order, nsets, result>>

\* one iteration of the loop of load, on a row of ids
LoadRow(ids, max) ==
    /\ pc = "loop"
    /\ Len(f) < 1 + max
    /\ \E r \in ids :
        LET st == LoadStep([pc |-> pc, data |-> data, src |-> src, order |-> order],
                           RowTable[r], Len(f) + 1, date, duplicates)
        IN  /\ f' = Append(f, r)
            /\ pc' = st.pc
            /\ data' = st.data
            /\ src' = st.src
            /\ order' = st.order
    /\ UNCHANGED <<date, duplicates, nsets, result>>

\* the input is exhausted: load returns data, the constructor keeps it
EndOfInput ==
    /\ pc = "loop"
    /\ pc' = "ready"
    /\ UNCHANGED <<date, duplicates, f, data, src, order, nsets, result>>

(* The arguments the calls are drawn from *)

RECURSIVE SeqsUpTo(_, _)
SeqsUpTo(S, n) ==
    IF n = 0 THEN {<<>>}
    ELSE LET shorter == SeqsUpTo(S, n - 1)
         IN  shorter \cup {Append(q, x) : q \in {r \in shorter : Len(r) = n - 1}, x \in S}

KeyArgs == {<<"A">>, <<"a">>, <<"B">>, <<"Z">>, NoneKey}
FieldArgs == {NoField, "name", "nofield"}
GetDefaults == {Sentinel, Str(<<"x">>)}
LocationDefaults == {Sentinel, LatLng(0, 0)}
DistanceDefaults == {Sentinel, Float(-1)}
ChainKeys == {<<"a">>, <<"B">>, <<"Z">>}
CandidateKeys == {<<"A">>, <<"A", "@", "1">>, <<"b">>}
References == {PyNone, LatLng(0, 0)}
Radii == {0, 111195}
SetCalls == {<<<<"b">>, [lat |-> PyNone]>>, <<NoneKey, [name |-> Str(<<"x">>)]>>}

Ready == pc = "ready"

\* The queries leave the store as it is, so a query made after another query
\* finds what it would have found in its place: result holds one query of
\* each state of the store.
Idle == result.op \in {"none", "set"}

\* set(key, **kw)
Set ==
    /\ Ready
    /\ nsets < MaxSets
    /\ \E call \in SetCalls :
        LET key == call[1]
            kw == call[2]
        IN  /\ data' = set(data, key, kw)
            /\ order' = SetOrder(data, order, key)
            /\ result' = [op |-> "set", key |-> key, kw |-> kw]
    /\ nsets' = nsets + 1
    /\ UNCHANGED <<pc, date, duplicates, f, src>>

\* get(key, field, default)
Get ==
    /\ Ready
    /\ Idle
    /\ \E key \in KeyArgs, field \in FieldArgs, default \in GetDefaults :
        result' = [op |-> "get", key |-> key, field |-> field, default |-> default,
                   out |-> get(data, key, field, default)]
    /\ UNCHANGED <<pc, date, duplicates, f, data, src, order, nsets>>

\* get_location(key, default=default)
GetLocation ==
    /\ Ready
    /\ Idle
    /\ \E key \in KeyArgs, default \in LocationDefaults :
        result' = [op |-> "get_location", key |-> key, default |-> default,
                   out |-> get_location(data, key, "lat", "lng", default)]
    /\ UNCHANGED <<pc, date, duplicates, f, data, src, order, nsets>>

\* distance(*keys, default=default)
Distance ==
    /\ Ready
    /\ Idle
    /\ \E keys \in SeqsUpTo(ChainKeys, MaxKeys), default \in DistanceDefaults :
        result' = [op |-> "distance", keys |-> keys, default |-> default,
                   out |-> distance(data, keys, default)]
    /\ UNCHANGED <<pc, date, duplicates, f, data, src, order, nsets>>

\* list(find_near_location(lat_lng, radius, from_keys))
FindNearLocation ==
    /\ Ready
    /\ Idle
    /\ \E lat_lng \in References, radius \in Radii,
          from_keys \in SeqsUpTo(CandidateKeys, MaxKeys) \cup {AllKeys} :
        result' = [op |-> "find_near_location", lat_lng |-> lat_lng,
                   radius |-> radius, from_keys |-> from_keys,
                   out |-> find_near_location(data, order, lat_lng, radius, from_keys)]
    /\ UNCHANGED <<pc, date, duplicates, f, data, src, order, nsets>>

\* list(find_closest_from_location(lat_lng, N, from_keys))
FindClosestFromLocation ==
    /\ Ready
    /\ Idle
    /\ \E lat_lng \in References, N \in 0..MaxN,
          from_keys \in SeqsUpTo(CandidateKeys, MaxKeys) \cup {AllKeys} :
        result' = [op |-> "find_closest_from_location", lat_lng |-> lat_lng,
                   N |-> N, from_keys |-> from_keys,
                   out |-> find_closest_from_location(data, order, lat_lng, N, from_keys)]
    /\ UNCHANGED <<pc, date, duplicates, f, data, src, order, nsets>>

Next ==
    \/ SkipHeader
    \/ EmptyInput
    \/ LoadRow(LoaderRows, MaxRows)
    \/ EndOfInput
    \/ Set

\* construction from any input, then calls of set
Spec == Init /\ [][Next]_vars

GeoInit ==
    /\ pc = "start"
    /\ date = <<"1", "2">>
    /\ duplicates \in BOOLEAN
    /\ f = <<>>
    /\ data = EmptyDict
    /\ src = <<>>
    /\ order = <<>>
    /\ nsets = 0
    /\ result = NoResult

GeoNext ==
    \/ SkipHeader
    \/ EmptyInput
    \/ LoadRow(GeoRows, MaxGeoRows)
    \/ EndOfInput
    \/ Set
    \/ Get
    \/ GetLocation
    \/ Distance
    \/ FindNearLocation
    \/ FindClosestFromLocation

\* construction from complete rows, then calls of set and of the queries
QuerySpec == GeoInit /\ [][GeoNext]_vars

-----------------------------------------------------------------------------
(* Geocodes of any content: set writes the values, get_location reads them *)

\* set(key, **kw) with values float converts, rejects, or overflows on
GeocodeCalls ==
    {<<<<"b">>, [lat |-> HugeInt]>>,
     <<<<"b">>, [lat |-> PyNone, lng |-> HugeInt]>>,
     <<<<"b">>, [lat |-> Float(1), lng |-> HugeInt]>>,
     <<<<"b">>, [lat |-> Float(1)]>>}

LocationKeys == {<<"a">>, <<"b">>, <<"Z">>}
LatFields == {"lat", "name", "country_code", "nofield", NoField}
LngFields == {"lng", "name"}

\* set(key, **kw), the call drawn from calls
SetFrom(calls) ==
    /\ Ready
    /\ nsets < MaxSets
    /\ \E call \in calls :
        LET key == call[1]
            kw == call[2]
        IN  /\ data' = set(data, key, kw)
            /\ order' = SetOrder(data, order, key)
            /\ result' = [op |-> "set", key |-> key, kw |-> kw]
    /\ nsets' = nsets + 1
    /\ UNCHANGED <<pc, date, duplicates, f, src>>

\* get_location(key, lat_field, lng_field, default)
GetLocationFields ==
    /\ Ready
    /\ Idle
    /\ \E key \in LocationKeys, lat_field \in LatFields, lng_field \in LngFields,
          default \in LocationDefaults :
        result' = [op |-> "get_location", key |-> key, lat_field |-> lat_field,
                   lng_field |-> lng_field, default |-> default,
                   out |-> get_location(data, key, lat_field, lng_field, default)]
    /\ UNCHANGED <<pc, date, duplicates, f, data, src, order, nsets>>

LocationNext ==
    \/ SkipHeader
    \/ EmptyInput
    \/ LoadRow(GeoRows, MaxGeoRows)
    \/ EndOfInput
    \/ SetFrom(GeocodeCalls)
    \/ GetLocationFields

\* construction from complete rows, then geocodes set and read
LocationSpec == GeoInit /\ [][LocationNext]_vars

-----------------------------------------------------------------------------
(* The searches by field and by key *)

\* (field, value) conditions: a list-valued field every row has, the names
\* of two rows, a field no record has
OnCity == <<"city_code_list", StrList(<<<<"A">>, <<"B">>>>)>>
OnName1 == <<"name", Str(<<"1">>)>>
OnName11 == <<"name", Str(<<"1", "1">>)>>
OnNoField == <<"nofield", PyNone>>

ConditionLists ==
    {<<>>, <<OnName1>>, <<OnCity, OnName1>>, <<OnName11, OnCity>>,
     <<OnName1, OnNoField>>}

FilterKeys == {<<"a">>, <<"B">>, <<"Z">>}

\* list(find_with(conditions, from_keys, reverse))
FindWith ==
    /\ Ready
    /\ Idle
    /\ \E conditions \in ConditionLists, reverse \in BOOLEAN,
          from_keys \in SeqsUpTo(FilterKeys, MaxKeys) \cup {AllKeys} :
        result' = [op |-> "find_with", conditions |-> conditions,
                   from_keys |-> from_keys, reverse |-> reverse,
                   out |-> find_with(data, order, conditions, from_keys, reverse)]
    /\ UNCHANGED <<pc, date, duplicates, f, data, src, order, nsets>>

ReferenceKeys == {<<"a">>, <<"Z">>, NoneKey}
NearKeys == {<<"A">>, <<"b">>}

\* list(find_near(key, radius, from_keys))
FindNear ==
    /\ Ready
    /\ Idle
    /\ \E key \in ReferenceKeys, radius \in Radii,
          from_keys \in SeqsUpTo(NearKeys, MaxKeys) \cup {AllKeys} :
        result' = [op |-> "find_near", key |-> key, radius |-> radius,
                   from_keys |-> from_keys,
                   out |-> find_near(data, order, key, radius, from_keys)]
    /\ UNCHANGED <<pc, date, duplicates, f, data, src, order, nsets>>

\* list(find_closest_from(key, N, from_keys))
FindClosestFrom ==
    /\ Ready
    /\ Idle
    /\ \E key \in ReferenceKeys, N \in 0..MaxN,
          from_keys \in SeqsUpTo(NearKeys, MaxKeys) \cup {AllKeys} :
        result' = [op |-> "find_closest_from", key |-> key, N |-> N,
                   from_keys |-> from_keys,
                   out |-> find_closest_from(data, order, key, N, from_keys)]
    /\ UNCHANGED <<pc, date, duplicates, f, data, src, order, nsets>>

SearchNext ==
    \/ SkipHeader
    \/ EmptyInput
    \/ LoadRow(GeoRows, MaxGeoRows)
    \/ EndOfInput
    \/ Set
    \/ FindWith
    \/ FindNear
    \/ FindClosestFrom

\* construction from complete rows, then calls of set and of the searches
SearchSpec == GeoInit /\ [][SearchNext]_vars

-----------------------------------------------------------------------------
(* Records written by set, read by get, and written through what get returns *)

\* rows of the record runs: keys in both cases, all valid on the date
RecordRows == {1, 2}
RecordDate == <<"2", "0">>

RecordCalls ==
    {<<<<"a">>, [name |-> Str(<<"x">>)]>>,
     <<<<"a">>, [lat |-> PyNone, rank |-> Float(1)]>>,
     <<<<"Z">>, [name |-> Str(<<"x">>)]>>,
     <<NoneKey, [lat |-> PyNone, rank |-> Float(1)]>>}

\* r = get(key); r[field] = value.  get returned self._data[key] itself, so
\* the assignment writes the record of the store.
MutateRecord ==
    /\ Ready
    /\ result.op = "get"
    /\ result.out.kind = "return"
    /\ result.out.val.t = "dict"
    /\ \E field \in {"name", "rank"} :
        LET value == Str(<<"z">>)
            k == result.out.val.ref
        IN  /\ data' = [data EXCEPT ![k] = DictSet(@, field, value)]
            /\ result' = [op |-> "mutate", key |-> result.key, field |-> field,
                          value |-> value]
    /\ UNCHANGED <<pc, date, duplicates, f, src, order, nsets>>

RecordInit ==
    /\ pc = "start"
    /\ date = RecordDate
    /\ duplicates \in BOOLEAN
    /\ f = <<>>
    /\ data = EmptyDict
    /\ src = <<>>
    /\ order = <<>>
    /\ nsets = 0
    /\ result = NoResult

RecordNext ==
    \/ SkipHeader
    \/ EmptyInput
    \/ LoadRow(RecordRows, MaxGeoRows)
    \/ EndOfInput
    \/ SetFrom(RecordCalls)
    \/ Get
    \/ MutateRecord

\* construction, then records set, read and written through
RecordSpec == RecordInit /\ [][RecordNext]_vars

-----------------------------------------------------------------------------
(* Vocabulary of the properties *)

\* row number i of the input (number 1 is the first line, which is dropped)
InputRow(i) == RowTable[f[i]]

\* the rows the loop of load reads
DataRows == 2..Len(f)

\* not blank and not a comment
IsDataRow(row) == DOMAIN row /= {} /\ ~startswith(row[0], <<"#">>)

\* the row has every column the loader reads
Complete(row) == \A c \in 0..(RowWidth - 1) : HasCol(row, c)

HasValidity(row) == HasCol(row, DateFromCol) /\ HasCol(row, DateUntilCol)

\* the date lies in the validity window of the row, bounds included
InWindow(row, d) ==
    /\ row[DateFromCol] = <<>> \/ d = row[DateFromCol] \/ StrLess(row[DateFromCol], d)
    /\ row[DateUntilCol] = <<>> \/ d = row[DateUntilCol] \/ StrLess(d, row[DateUntilCol])

\* some record of the store was built from row number i
Loaded(i) == \E k \in DOMAIN src : src[k] = i

\* the key ends in @ and a number
HasSuffix(k) ==
    \E i \in 1..(Len(k) - 1) :
        k[i] = "@" /\ \A j \in (i + 1)..Len(k) : IsDigit(k[j])

\* the schema fields of a record (all but __dup__)
Fields(rec) == [name \in DOMAIN rec \ {"__dup__"} |-> rec[name]]

Dup(d, k) == d[k]["__dup__"].v

\* the load is under way or done and set was not called
Loading == pc \in {"loop", "ready"} /\ nsets = 0

-----------------------------------------------------------------------------
(* C1: after a load that keeps duplicates, the duplicate links are          *)
(* symmetric (B in A's duplicate keys implies A in B's) and no record       *)
(* lists itself, whatever the number of rows sharing a key.                 *)
C1_DuplicateLinksSymmetric ==
    (pc = "ready" /\ duplicates /\ nsets = 0) =>
        \A a \in DOMAIN data :
            /\ a \notin Dup(data, a)
            /\ \A b \in Dup(data, a) : b \in DOMAIN data /\ a \in Dup(data, b)

-----------------------------------------------------------------------------
(* C2: get, get_location and distance on a key the store does not hold      *)
(* raise UnknownKeyError when no default is given and return the default    *)
(* when one is, for distance whichever key of the chain is absent.          *)
C2_AbsentKey ==
    /\ (result.op \in {"get", "get_location"} /\ ~contains(data, result.key)) =>
            result.out = IF result.default = Sentinel
                         THEN Raise("UnknownKeyError")
                         ELSE Return(result.default)
    /\ (/\ result.op = "distance"
        /\ \E i \in 1..Len(result.keys) : ~contains(data, result.keys[i])) =>
            result.out = IF result.default = Sentinel
                         THEN Raise("UnknownKeyError")
                         ELSE Return(result.default)

\* distance returned its default for a chain whose second key alone is absent
C2_Witness ==
    /\ result.op = "distance"
    /\ Len(result.keys) = 2
    /\ contains(data, result.keys[1])
    /\ ~contains(data, result.keys[2])
    /\ result.default /= Sentinel
    /\ result.out = Return(result.default)

-----------------------------------------------------------------------------
(* C3, as stated: a data row with a key is loaded exactly when the date     *)
(* lies in its validity window.                                             *)
C3_LoadedIffInWindow ==
    Loading =>
        \A i \in DataRows :
            LET row == InputRow(i) IN
            (IsDataRow(row) /\ Complete(row) /\ row[KEY] /= <<>>) =>
                (Loaded(i) <=> InWindow(row, date))

(* C3, amended: a complete data row with a key enters the store when it is  *)
(* read exactly if the date lies in its validity window (bounds included,   *)
(* dates compared as strings) and, when duplicates are not kept, its key is *)
(* not in the store yet; no record of the store was ever built from a row   *)
(* outside its window.                                                      *)
C3_StoredWhenRead ==
    (pc = "loop" /\ f' /= f) =>
        LET i == Len(f')
            row == RowTable[f'[i]]
        IN  (IsDataRow(row) /\ Complete(row) /\ row[KEY] /= <<>>) =>
                ((\E k \in DOMAIN src' : src'[k] = i)
                    <=> (InWindow(row, date)
                            /\ (duplicates \/ row[KEY] \notin DOMAIN data)))

C3_OnlyInWindow ==
    \A k \in DOMAIN src :
        /\ IsDataRow(InputRow(src[k]))
        /\ InWindow(InputRow(src[k]), date)
        /\ nsets = 0 => Fields(data[k]) = Fields(BuildRecord(InputRow(src[k])))

\* C3, amended: both parts, at every step and in every state
C3_ValidityWindow == [][C3_StoredWhenRead]_vars /\ []C3_OnlyInWindow

\* a row was loaded on the first day of its window, another was passed over
C3_Witness ==
    /\ pc = "ready"
    /\ \E k \in DOMAIN src : InputRow(src[k])[DateFromCol] = date
    /\ \E i \in DataRows :
        /\ IsDataRow(InputRow(i)) /\ Complete(InputRow(i))
        /\ ~InWindow(InputRow(i), date)
        /\ ~Loaded(i)

-----------------------------------------------------------------------------
(* C4: first seen wins.  In both modes a key K without @n suffix maps to    *)
(* the record built from the first row of key K that passes the exclusion   *)
(* rules, at every point of the load: no later row replaces or alters its   *)
(* fields.                                                                  *)
Accepted(i) ==
    /\ IsDataRow(InputRow(i))
    /\ HasValidity(InputRow(i))
    /\ InWindow(InputRow(i), date)
    /\ InputRow(i)[KEY] /= <<>>

C4_FirstSeenWins ==
    Loading =>
        \A i \in DataRows :
            LET K == InputRow(i)[KEY] IN
            (/\ Accepted(i)
             /\ ~HasSuffix(K)
             /\ \A j \in 2..(i - 1) : ~(Accepted(j) /\ InputRow(j)[KEY] = K)) =>
                /\ K \in DOMAIN data
                /\ src[K] = i
                /\ Fields(data[K]) = Fields(BuildRecord(InputRow(i)))

\* two different rows of one key were accepted and the first holds the key
C4_Witness ==
    /\ pc = "ready"
    /\ nsets = 0
    /\ \E i, j \in DataRows :
        /\ i < j
        /\ Accepted(i) /\ Accepted(j)
        /\ Complete(InputRow(i)) /\ Complete(InputRow(j))
        /\ InputRow(i)[KEY] = InputRow(j)[KEY]
        /\ f[i] /= f[j]
        /\ src[InputRow(i)[KEY]] = i
        /\ data[InputRow(i)[KEY]]["name"] = Str(InputRow(i)[6])

-----------------------------------------------------------------------------
(* C5: every key of the store is its own upper-cased form, after any load   *)
(* and any calls of set, so every key of the iteration is contained and     *)
(* get returns its record.                                                  *)
C5_KeysUpperCased ==
    pc = "ready" =>
        \A i \in 1..Len(order) :
            LET k == order[i] IN
            /\ k /= NoneKey => upper(k) = k
            /\ contains(data, k)
            /\ get(data, k, NoField, Sentinel) = Return(DictRef(data, k))

-----------------------------------------------------------------------------
Loc(k) == get_location(data, k, "lat", "lng", Sentinel).val

Legs(keys) ==
    [i \in 1..(Len(keys) - 1) |->
        distance_between_locations(Loc(keys[i]), Loc(keys[i + 1]))]

(* C6: distance over keys the store holds is the sum of the distances of    *)
(* the consecutive pairs of their locations; with two keys it is            *)
(* distance_between_locations of the two locations, None (no error) when a  *)
(* location is None.                                                        *)
C6_DistanceOfChain ==
    (/\ result.op = "distance"
     /\ \A i \in 1..Len(result.keys) : contains(data, result.keys[i])) =>
        /\ Len(result.keys) = 2 =>
                result.out = Return(distance_between_locations(Loc(result.keys[1]),
                                                               Loc(result.keys[2])))
        /\ (\A i \in 1..(Len(result.keys) - 1) : Legs(result.keys)[i] /= PyNone) =>
                result.out = Return(Float(fsum(Legs(result.keys))))

-----------------------------------------------------------------------------
(* C7, as stated: the load fails whenever a row other than the first line,  *)
(* blank rows and comments has too few columns for the schema.              *)
C7_ShortRowFails ==
    pc \in {"loop", "ready"} =>
        \A i \in DataRows : IsDataRow(InputRow(i)) => Complete(InputRow(i))

\* the store the load had built before it read row number i
Before(i) == load(SubSeq(f, 1, i - 1), date, duplicates).data

\* row number i passes the exclusion rules of the load
Passes(i) ==
    /\ InWindow(InputRow(i), date)
    /\ InputRow(i)[KEY] /= <<>>
    /\ duplicates \/ InputRow(i)[KEY] \notin DOMAIN Before(i)

(* C7, amended: the load fails, and yields no store, whenever it reads a    *)
(* row (not blank, not a comment) that lacks the validity columns, or that  *)
(* passes the exclusion rules (date inside its window, non-empty key, key   *)
(* not yet stored when duplicates are not kept) and lacks a column of the   *)
(* schema; a row with too few columns never yields a record, and is passed  *)
(* over without an error when an exclusion rule rejects it.  On the rows of *)
(* the model, whose columns all decode, the load fails in no other case.    *)
C7_ShortRowOutcome ==
    /\ pc \in {"loop", "ready"} =>
        \A i \in DataRows :
            (IsDataRow(InputRow(i)) /\ ~Complete(InputRow(i))) =>
                HasValidity(InputRow(i)) /\ ~Passes(i)
    /\ pc = "failed" =>
        /\ data = EmptyDict
        /\ IsDataRow(InputRow(Len(f)))
        /\ ~Complete(InputRow(Len(f)))
        /\ ~HasValidity(InputRow(Len(f))) \/ Passes(Len(f))
    /\ \A k \in DOMAIN src : Complete(InputRow(src[k]))

\* the load failed on a row that has the validity columns, after it had
\* passed over another row with too few columns
C7_Witness ==
    /\ pc = "failed"
    /\ HasValidity(InputRow(Len(f)))
    /\ \E i \in 2..(Len(f) - 1) : IsDataRow(InputRow(i)) /\ ~Complete(InputRow(i))

-----------------------------------------------------------------------------
Candidates == FromKeys(order, result.from_keys)

Produced(k) == \E j \in 1..Len(result.out) : result.out[j][2] = k

DistanceTo(k) == distance_between_locations(result.lat_lng, Loc(k)).v

(* C8: for a reference location, a radius and a list of candidate keys,     *)
(* find_near_location yields a candidate (with its distance) exactly if the *)
(* store holds it, its location is not None and its distance to the         *)
(* reference is <= the radius.                                              *)
C8_RadiusExact ==
    (result.op = "find_near_location" /\ result.lat_lng /= PyNone) =>
        /\ \A i \in 1..Len(Candidates) :
            LET k == Candidates[i] IN
            Produced(k) <=> /\ contains(data, k)
                            /\ Loc(k) /= PyNone
                            /\ DistanceTo(k) <= result.radius
        /\ \A j \in 1..Len(result.out) :
            /\ \E i \in 1..Len(Candidates) : Candidates[i] = result.out[j][2]
            /\ result.out[j][1] = DistanceTo(result.out[j][2])

\* a candidate at exactly the radius was yielded, one farther away was not
C8_Witness ==
    /\ result.op = "find_near_location"
    /\ result.lat_lng /= PyNone
    /\ \E j \in 1..Len(result.out) : result.out[j][1] = result.radius
    /\ \E i \in 1..Len(Candidates) :
        /\ contains(data, Candidates[i])
        /\ Loc(Candidates[i]) /= PyNone
        /\ ~Produced(Candidates[i])

-----------------------------------------------------------------------------
Before9(p, q) == p[1] < q[1] \/ (p[1] = q[1] /\ StrLess(p[2], q[2]))

Count(p, l) == Cardinality({i \in 1..Len(l) : l[i] = p})

Pairs == build_distances(data, result.lat_lng, Candidates)

(* C9: find_closest_from_location(ref, N) yields the first N of the         *)
(* candidate (distance, key) pairs sorted as tuples (ascending distance,    *)
(* ties broken by key; all the pairs when there are fewer than N), and is   *)
(* a prefix of what it yields for N + 1.                                    *)
C9_ClosestSortedPrefix ==
    result.op = "find_closest_from_location" =>
        LET out == result.out
            more == find_closest_from_location(data, order, result.lat_lng,
                                               result.N + 1, result.from_keys)
        IN  /\ Len(out) = IF result.N < Len(Pairs) THEN result.N ELSE Len(Pairs)
            /\ \A i, j \in 1..Len(out) : i < j => ~Before9(out[j], out[i])
            /\ \A i \in 1..Len(out) : Count(out[i], out) <= Count(out[i], Pairs)
            /\ \A i \in 1..Len(Pairs), j \in 1..Len(out) :
                Before9(Pairs[i], out[j]) => Count(Pairs[i], out) = Count(Pairs[i], Pairs)
            /\ Len(more) >= Len(out)
            /\ SubSeq(more, 1, Len(out)) = out

\* two candidates at one distance, given in descending key order: the one
\* closest is the second candidate
C9_Witness ==
    /\ result.op = "find_closest_from_location"
    /\ result.N = 1
    /\ Len(Pairs) = 2
    /\ Pairs[1][1] = Pairs[2][1]
    /\ StrLess(Pairs[2][2], Pairs[1][2])
    /\ result.out = <<Pairs[2]>>

-----------------------------------------------------------------------------
KeepAll == load(f, date, TRUE)

KeepFirstIsUnsuffixedPart ==
    /\ DOMAIN data = {k \in DOMAIN KeepAll.data : ~HasSuffix(k)}
    /\ \A k \in DOMAIN data :
        /\ Fields(data[k]) = Fields(KeepAll.data[k])
        /\ Dup(data, k) = {}
        /\ ~HasSuffix(k)
    /\ Cardinality(DOMAIN data) <= Cardinality(DOMAIN KeepAll.data)

(* C10, as stated: the store of a load that keeps the first row of a key    *)
(* holds exactly the keys without @n suffix of the store the same rows and  *)
(* date yield when duplicates are kept, with equal fields, empty duplicate  *)
(* keys and no key with an @n suffix, so it is never larger.                *)
C10_KeepFirst ==
    (pc = "ready" /\ nsets = 0 /\ ~duplicates /\ KeepAll.pc /= "failed") =>
        KeepFirstIsUnsuffixedPart

\* no row of the input has a key that ends in @n
NoRawSuffix ==
    \A i \in DataRows : IsDataRow(InputRow(i)) => ~HasSuffix(InputRow(i)[KEY])

(* C10, amended: the same, for inputs in which no row's own key ends in an  *)
(* @n suffix and which load in both modes.                                  *)
C10_KeepFirstNoRawSuffix ==
    (/\ pc = "ready" /\ nsets = 0 /\ ~duplicates /\ KeepAll.pc /= "failed"
     /\ NoRawSuffix) =>
        KeepFirstIsUnsuffixedPart

\* a second row of a key was passed over: the store that keeps duplicates
\* is larger
C10_Witness ==
    /\ pc = "ready" /\ nsets = 0 /\ ~duplicates /\ KeepAll.pc /= "failed"
    /\ NoRawSuffix
    /\ Cardinality(DOMAIN data) < Cardinality(DOMAIN KeepAll.data)
    /\ \E i \in DataRows : Accepted(i) /\ Complete(InputRow(i)) /\ ~Loaded(i)

-----------------------------------------------------------------------------
\* the value is a float or a string of digits
Numeric(x) ==
    \/ x.t = "float"
    \/ x.t = "str" /\ x.v /= <<>> /\ \A i \in 1..Len(x.v) : IsDigit(x.v[i])

\* the number a numeric value stands for
NumberOf(x) == IF x.t = "float" THEN x.v ELSE DecimalValue(x.v)

\* the record has the field and its value is a number or reads as one
Usable(rec, field) == field \in DOMAIN rec /\ Numeric(rec[field])

(* C11: get_location on a key the store holds never raises.  It returns     *)
(* None, whether a default is given or not, when the latitude or longitude  *)
(* field is missing from the record, empty, None or not a number, and the   *)
(* (lat, lng) pair of the two fields otherwise.                             *)
C11_LocationNeverRaises ==
    (result.op = "get_location" /\ contains(data, result.key)) =>
        LET rec == data[NormKey(result.key)] IN
        /\ result.out.kind = "return"
        /\ (~Usable(rec, result.lat_field) \/ ~Usable(rec, result.lng_field)) =>
                result.out = Return(PyNone)
        /\ (Usable(rec, result.lat_field) /\ Usable(rec, result.lng_field)) =>
                result.out = Return(LatLng(NumberOf(rec[result.lat_field]),
                                           NumberOf(rec[result.lng_field])))

-----------------------------------------------------------------------------
\* the record of candidate k has the field of every condition
HasFields(k) ==
    \A i \in 1..Len(result.conditions) :
        result.conditions[i][1] \in DOMAIN data[NormKey(k)]

\* record[field] == value for every condition, != for every one when inverted
Satisfies(k, invert) ==
    \A i \in 1..Len(result.conditions) :
        LET c == result.conditions[i] IN
        (data[NormKey(k)][c[1]] = c[2]) /= invert

Plain == find_with(data, order, result.conditions, result.from_keys, FALSE)

(* C12: find_with yields, in the order of the candidate keys, exactly the   *)
(* candidates the store holds whose record satisfies every condition:       *)
(* record[field] == value for all of them, or record[field] != value for    *)
(* all of them when inverted.  (A condition on a field that a record lacks  *)
(* is no comparison: get raises KeyError and the search ends with it.)      *)
C12_FindWithExact ==
    result.op = "find_with" =>
        /\ (\A i \in 1..Len(Candidates) :
                contains(data, Candidates[i]) => HasFields(Candidates[i])) =>
             /\ result.out.exc = "none"
             /\ result.out.keys =
                    SelectSeq(Candidates,
                              LAMBDA k : contains(data, k)
                                            /\ Satisfies(k, result.reverse))
        /\ result.out.exc /= "none" =>
             /\ result.out.exc = "KeyError"
             /\ \E i \in 1..Len(Candidates) :
                    contains(data, Candidates[i]) /\ ~HasFields(Candidates[i])

\* an inverted search of two conditions: a candidate of the store that
\* satisfies one condition only is yielded neither by it nor by the plain
\* search, which yields another candidate
C12_Witness ==
    /\ result.op = "find_with"
    /\ result.reverse
    /\ Len(result.conditions) = 2
    /\ result.out.exc = "none"
    /\ Plain.exc = "none"
    /\ Plain.keys /= <<>>
    /\ \E i \in 1..Len(Candidates) :
        LET k == Candidates[i] IN
        /\ contains(data, k)
        /\ \A j \in 1..Len(result.out.keys) : result.out.keys[j] /= k
        /\ \A j \in 1..Len(Plain.keys) : Plain.keys[j] /= k

-----------------------------------------------------------------------------
\* the key in every casing: the strings with the same upper-cased form
Casings(key) ==
    IF key = NoneKey THEN {key}
    ELSE {k \in [1..Len(key) -> {CodePoints[i] : i \in 1..Len(CodePoints)}] :
            upper(k) = upper(key)}

\* the step is a call set(key, **kw)
IsSet == nsets' = nsets + 1

SetUpsert ==
    LET key == result'.key
        kw == result'.kw
        K == NormKey(key)
        absent == K \notin DOMAIN data
        before == IF absent THEN empty_value ELSE data[K]
    IN  /\ \A k \in Casings(key), fl \in DOMAIN kw :
            get(data', k, fl, Sentinel) = Return(kw[fl])
        /\ DOMAIN data'[K] = DOMAIN before \cup DOMAIN kw
        /\ \A fl \in DOMAIN before \ DOMAIN kw : data'[K][fl] = before[fl]
        /\ DOMAIN data' = DOMAIN data \cup {K}
        /\ \A k \in DOMAIN data \ {K} : data'[k] = data[k]
        /\ Cardinality(DOMAIN data') =
                Cardinality(DOMAIN data) + (IF absent THEN 1 ELSE 0)

(* C13: set(key, fields) is an upsert with a frame.  When the upper-cased   *)
(* key is absent the record starts as the empty record (empty duplicate     *)
(* keys); the given values are merged into it: get returns each of them for *)
(* every casing of the key, the other fields of the record keep their       *)
(* values, the records of the other keys are unchanged and the size grows   *)
(* by one exactly when the key was absent.                                  *)
C13_SetUpsert == [][IsSet => SetUpsert]_vars

\* set on a loaded key, given in lower case, with a field the schema does
\* not have: the loaded fields are as the row gave them, a record loaded
\* under the lower-case key is as it was, and no record was added
C13_Witness ==
    /\ result.op = "set"
    /\ result.key = <<"a">>
    /\ "rank" \in DOMAIN result.kw
    /\ <<"A">> \in DOMAIN src /\ <<"a">> \in DOMAIN src
    /\ data[<<"A">>]["rank"] = result.kw["rank"]
    /\ data[<<"A">>]["name"] = BuildRecord(InputRow(src[<<"A">>]))["name"]
    /\ data[<<"a">>] = BuildRecord(InputRow(src[<<"a">>]))
    /\ Cardinality(DOMAIN data) = Cardinality(DOMAIN src)

-----------------------------------------------------------------------------
(* C14: the searches by key fail softly.  find_near and find_closest_from   *)
(* on a reference key the store does not hold yield nothing and raise       *)
(* nothing, whatever the radius, N and the candidate keys, whereas          *)
(* get_location without a default raises UnknownKeyError on that key.       *)
C14_SoftFail ==
    (result.op \in {"find_near", "find_closest_from"}
        /\ ~contains(data, result.key)) =>
            /\ result.out = <<>>
            /\ get_location(data, result.key, "lat", "lng", Sentinel)
                    = Raise("UnknownKeyError")

\* find_near on an absent key yielded nothing, while a candidate of the
\* store has a location, which a search from that location yields
C14_Witness ==
    /\ result.op = "find_near"
    /\ ~contains(data, result.key)
    /\ result.out = <<>>
    /\ \E i \in 1..Len(Candidates) :
        /\ contains(data, Candidates[i])
        /\ Loc(Candidates[i]) /= PyNone
        /\ find_near_location(data, order, Loc(Candidates[i]), result.radius,
                              result.from_keys) /= <<>>

-----------------------------------------------------------------------------
(* C15: get(key) without a field returns the record as a read-only view:    *)
(* whatever the caller does to the value returned, the store is unchanged,  *)
(* a later get of the key and field returns what it returned before, and    *)
(* the records of a store change through set only.                          *)
C15_ReadOnlyView ==
    [][(Ready /\ ~IsSet) =>
            /\ data' = data
            /\ \A k \in KeyArgs, fl \in FieldArgs \cup {"rank"} :
                    get(data', k, fl, Sentinel) = get(data, k, fl, Sentinel)]_vars

-----------------------------------------------------------------------------
\* no key of the input holds an @
NoRawAt ==
    \A i \in DataRows :
        IsDataRow(InputRow(i)) =>
            \A j \in 1..Len(InputRow(i)[KEY]) : InputRow(i)[KEY][j] /= "@"

\* the accepted rows before row number i that have its key
Earlier(i) ==
    {j \in 2..(i - 1) : Accepted(j) /\ InputRow(j)[KEY] = InputRow(i)[KEY]}

\* the key of the record of row number i: K for the first accepted row of
\* key K, K@m for the m-th row after it
KeyOfRow(i) ==
    LET K == InputRow(i)[KEY]
        m == Cardinality(Earlier(i))
    IN  IF m = 0 THEN K ELSE K \o <<"@">> \o IntToStr(m)

SuffixesInRowOrder ==
    /\ \A i \in DataRows :
        Accepted(i) =>
            /\ KeyOfRow(i) \in DOMAIN data
            /\ src[KeyOfRow(i)] = i
            /\ Earlier(i) = {} =>
                    Dup(data, KeyOfRow(i)) =
                        {KeyOfRow(j) :
                            j \in {n \in DataRows : Accepted(n) /\ i \in Earlier(n)}}
    /\ Cardinality(DOMAIN data) = Cardinality({i \in DataRows : Accepted(i)})

KeyOfLastRow == KeyOfRow(Len(f))

\* a row read by the loop adds one key and leaves the entries as they are
NothingOverwritten ==
    (pc = "loop" /\ pc' = "loop" /\ f' /= f /\ duplicates /\ NoRawAt') =>
        /\ DOMAIN data \subseteq DOMAIN data'
        /\ \A k \in DOMAIN data :
                Fields(data'[k]) = Fields(data[k]) /\ src'[k] = src[k]
        /\ \A k \in DOMAIN data' \ DOMAIN data :
                /\ k = KeyOfLastRow'
                /\ Cardinality(DOMAIN data') = Cardinality(DOMAIN data) + 1

(* C16: when duplicates are kept and no key of the input holds an @, the    *)
(* m-th accepted row that collides on key K is stored under K@m, m being 1  *)
(* + the number of duplicates linked to K so far: the suffixes of K are     *)
(* 1..m in row order, the new key is never in the store already, no entry   *)
(* is overwritten, and the store has as many records as rows were accepted. *)
C16_SuffixNumbering ==
    /\ []((Loading /\ duplicates /\ NoRawAt) => SuffixesInRowOrder)
    /\ [][NothingOverwritten]_vars

\* three rows of one key were accepted: K, K@1 and K@2 hold them in row order
C16_Witness ==
    /\ pc = "ready" /\ nsets = 0 /\ duplicates /\ NoRawAt
    /\ \E i \in DataRows :
        /\ Accepted(i)
        /\ Cardinality(Earlier(i)) = 2
        /\ KeyOfRow(i) = InputRow(i)[KEY] \o <<"@", "2">>
        /\ src[KeyOfRow(i)] = i
        /\ \E j \in Earlier(i) : f[j] /= f[i]
====
